---- MODULE Spec2Model ----
(***************************************************************************)
(* CloneMentor Pro: capture -> classify -> verify pipeline.                *)
(*                                                                         *)
(*   Spec       the POST /scan handler driving VisualWebScraper,           *)
(*              FidelityVerifier and VisualElementorConverter              *)
(*   ScoreSpec  FidelityVerifier.calculateOverallScore as a pure function  *)
(*   WidthSpec  calculateIntelligentColumnWidths as a pure function        *)
(*   ConvSpec   the DOM walk of the scraper followed by the conversion of  *)
(*              the captured tree into template content                    *)
(*                                                                         *)
(* Scores are exact rationals <<numerator, denominator>>; the JavaScript   *)
(* source computes the same expressions in double precision.               *)
(***************************************************************************)
EXTENDS Integers, Sequences, FiniteSets, TLC

VARIABLES
    pc,               \* position of the request handler / pure-function driver
    skipVerification, \* req.body.skipVerification
    scanned,          \* visualData returned by scrapeVisualLayout (or NoData)
    navLog,           \* wait strategies attempted by scrapeVisualLayout
    vNavLog,          \* wait strategies attempted by captureOriginalSite
    sBrowser,         \* visualScraper.browser
    vBrowser,         \* fidelityVerifier.browser
    report,           \* verificationReport
    response,         \* what res.json / res.status(..).json sent
    structure,        \* element tree captured by mapElement
    content,          \* template.content produced by the converter
    columns,          \* columns handed to calculateIntelligentColumnWidths
    callback,         \* how the progress sink behaves when it is invoked
    progressData,     \* progress values passed to updateProgress, in hundredths
    pages,            \* page contexts opened by browser.newPage() and not closed
    errorMessage,     \* error.message seen by the catch block that handled it
    calls,            \* concurrent callers of one instance: where each one is
    browsers,         \* browser processes launched by that instance
    assembledTemplate, \* the `template` assembled by convertVisualToElementor
    validatedTemplate, \* what validateAndCleanTemplate made of it
    returned,         \* the document convertVisualToElementor returns
    globalColors,     \* visualConverter.globalColors, in insertion order
    globalFonts,      \* visualConverter.globalFonts, in insertion order
    conversions,      \* what the shared converter was given and what it emitted
    applied,          \* a function of the verifier or converter applied to arguments
    scroll            \* the lazy-load scroll loop running in the page

vars == <<pc, skipVerification, scanned, navLog, vNavLog, sBrowser, vBrowser,
          report, response, structure, content, columns,
          callback, progressData, pages, errorMessage, calls, browsers,
          assembledTemplate, validatedTemplate, returned,
          globalColors, globalFonts, conversions, applied, scroll>>

hookVars  == <<callback, progressData, pages, errorMessage>>
launchVars == <<calls, browsers>>
docVars   == <<assembledTemplate, validatedTemplate, returned>>
shareVars == <<globalColors, globalFonts, conversions>>
pureVars  == <<applied, scroll>>
scanVars  == <<skipVerification, scanned, navLog, vNavLog, sBrowser, vBrowser, response,
               hookVars, launchVars, docVars, shareVars, pureVars>>
\* what the request handler never touches
idleVars  == <<columns, launchVars, docVars, shareVars, pureVars>>
convVars  == <<structure, content>>

----------------------------------------------------------------------------
(* Bounds *)

GridN == 20        \* sub-scores of ScoreSpec range over k/GridN, k in 0..GridN
MaxNodes == 5      \* elements below <body> visited by the DOM walk of ConvSpec
MaxDepth == 3      \* nesting depth below <body> in ConvSpec
MaxCols == 5       \* columns handed to calculateIntelligentColumnWidths in WidthSpec
MaxCallers == 3    \* concurrent callers of one scraper or verifier in LaunchSpec
MaxLaunches == 3   \* browser processes launched in one behaviour of LaunchSpec
MaxSections == 2   \* sections of a document assembled in DocSpec
MaxWidgets == 2    \* widgets in each column of a document assembled in DocSpec
MaxConversions == 3 \* conversions made by the shared converter in ShareSpec
MaxScrollHeight == 400 \* pixels still to be scrolled in ScrollSpec

----------------------------------------------------------------------------
(* Exact rational arithmetic on non-negative fractions *)

RECURSIVE GCD(_, _)
GCD(a, b) == IF b = 0 THEN a ELSE GCD(b, a % b)

Rat(n, d) == LET g == GCD(n, d) IN <<n \div g, d \div g>>

RAdd(x, y) == Rat(x[1] * y[2] + y[1] * x[2], x[2] * y[2])
RMul(x, y) == Rat(x[1] * y[1], x[2] * y[2])
RDivInt(x, k) == Rat(x[1], x[2] * k)
RLt(x, y) == x[1] * y[2] < y[1] * x[2]
RLe(x, y) == x[1] * y[2] <= y[1] * x[2]
RMax(x, y) == IF RLt(x, y) THEN y ELSE x
RMin(x, y) == IF RLt(y, x) THEN y ELSE x

Zero == <<0, 1>>
One  == <<1, 1>>

----------------------------------------------------------------------------
(* FidelityVerifier: scoring *)

\* a verifier constructed with a threshold just above the floor of the overall score
toleranceThreshold_Strict == Rat(55, 100)

toleranceThreshold == Rat(45, 100)

weights == [visual |-> Rat(3, 10), structural |-> Rat(5, 10), responsive |-> Rat(2, 10)]

weightedScore(r) ==
    RAdd(RAdd(RMul(r.visualScore, weights.visual),
              RMul(r.structuralScore, weights.structural)),
         RMul(r.responsiveScore, weights.responsive))

\* calculateOverallScore without the final floor
calculateOverallScore_NoFloor(r) ==
    LET w == weightedScore(r) IN
    IF RLt(w, Rat(6, 10))
       /\ (RLt(Rat(4, 10), r.structuralScore) \/ RLt(Rat(4, 10), r.visualScore))
    THEN RMax(Rat(6, 10), RMul(w, Rat(13, 10)))
    ELSE w

calculateOverallScore(r) ==
    LET w == weightedScore(r) IN
    IF RLt(w, Rat(6, 10))
       /\ (RLt(Rat(4, 10), r.structuralScore) \/ RLt(Rat(4, 10), r.visualScore))
    THEN RMax(Rat(6, 10), RMul(w, Rat(13, 10)))
    ELSE RMax(Rat(5, 10), w)

\* verificationReport as created at the top of verifyFidelity
NewReport ==
    [fidelityScore |-> Zero, responsiveScore |-> Zero, visualScore |-> Zero,
     structuralScore |-> Zero, passed |-> FALSE, fallback |-> FALSE,
     error |-> FALSE, status |-> "pending"]

----------------------------------------------------------------------------
(* Captured element trees (ElementNode) *)

\* tags whose innerHTML mapElement records
richContentTags ==
    {"p", "div", "span", "h1", "h2", "h3", "h4", "h5", "h6", "li", "td", "th",
     "blockquote", "article", "section", "header", "footer", "main", "nav",
     "aside", "figure", "figcaption", "form", "button", "a", "strong", "em",
     "ul", "ol", "dl", "dt", "dd", "table", "tbody", "thead", "tr"}

HeadingTags == {"h1", "h2", "h3", "h4", "h5", "h6"}

\* One captured node.  textLen: length of the trimmed direct text content.
Element(tag, textLen, w, h, display, dir, pos, y, kids) ==
    [tagName |-> tag, textLen |-> textLen,
     layout |-> [width |-> w, height |-> h, display |-> display,
                 flexDirection |-> dir, position |-> pos, y |-> y],
     children |-> kids]

\* element.innerHTML is recorded for rich tags only and is non-empty when the
\* element holds text or child elements
hasInnerHTML(e) ==
    e.tagName \in richContentTags /\ (e.textLen > 0 \/ Len(e.children) > 0)

\* document.body as mapElement returns it before any child is visited
BodyElement(kids) == Element("body", 0, 1200, 800, "block", "row", "static", 0, kids)

----------------------------------------------------------------------------
(* Template nodes *)

\* hasId: the node carries an `id` property (a string of 8 characters drawn
\* from [a-z0-9] by generateElementId)
NullNode == [elType |-> "null", widgetType |-> "", htmlForm |-> FALSE,
             column_size |-> 0, hasId |-> FALSE, elements |-> <<>>]

\* createSection, createColumn and createWidget of the converter each set
\* id: this.generateElementId()
SectionNode(els) == [elType |-> "section", widgetType |-> "", htmlForm |-> FALSE,
                     column_size |-> 0, hasId |-> TRUE, elements |-> els]

ColumnNode(size, els) == [elType |-> "column", widgetType |-> "", htmlForm |-> FALSE,
                          column_size |-> size, hasId |-> TRUE, elements |-> els]

\* htmlForm: settings.html contains '<form' or '<input'
WidgetNode(type, form) == [elType |-> "widget", widgetType |-> type, htmlForm |-> form,
                           column_size |-> 0, hasId |-> TRUE, elements |-> <<>>]

\* a node as the scraper builds it: sections and columns are given elType,
\* settings and elements, widgets elType, widgetType and settings (the only
\* generated id is settings._element_id); none has an `id` property
withoutId(node) == [node EXCEPT !.hasId = FALSE]

NotNull(n) == n.elType # "null"

\* .filter(Boolean)
FilterBoolean(nodes) == SelectSeq(nodes, NotNull)

----------------------------------------------------------------------------
(* VisualWebScraper.buildVisualStructureMap *)

ScraperDetermineElementorType(element, parentType) ==
    IF \/ parentType = "body"
       \/ element.tagName \in {"section", "header", "footer", "main"}
       \/ (element.layout.display = "flex" /\ element.layout.flexDirection = "column")
       \/ (element.layout.width >= 300 /\ Len(element.children) > 0)
    THEN "section"
    ELSE IF /\ parentType = "section"
            /\ element.layout.display \in {"flex", "block", "inline-block"}
            /\ Len(element.children) > 0
    THEN "column"
    ELSE "widget"

\* settings._column_size written by buildColumnSettings
ScraperColumnSize == 100

\* the element's outerHTML contains '<form' or '<input'
RECURSIVE containsFormMarkup(_)
containsFormMarkup(e) ==
    \/ e.tagName \in {"form", "input"}
    \/ \E i \in 1..Len(e.children) : containsFormMarkup(e.children[i])

buildWidget(element) ==
    withoutId(
    CASE element.tagName \in HeadingTags -> WidgetNode("heading", FALSE)
      [] element.tagName = "img"         -> WidgetNode("image", FALSE)
      [] element.tagName = "a"           -> WidgetNode("button", FALSE)
      [] OTHER ->
           \* html: innerHTML || `<tag style=...>text</tag>`
           WidgetNode("html",
               IF hasInnerHTML(element)
               THEN \E i \in 1..Len(element.children) :
                        containsFormMarkup(element.children[i])
               ELSE element.tagName \in {"form", "input"}))

RECURSIVE buildElementorStructure(_, _)
buildElementorStructure(element, parentType) ==
    LET elementType == ScraperDetermineElementorType(element, parentType)
        kids(pt) == FilterBoolean([i \in 1..Len(element.children) |->
                        buildElementorStructure(element.children[i], pt)])
    IN CASE elementType = "section" -> withoutId(SectionNode(kids("section")))
         [] elementType = "column"  ->
                withoutId(ColumnNode(ScraperColumnSize, kids("column")))
         [] OTHER                   -> buildWidget(element)

\* visualStructure as returned for a captured body element
buildVisualStructureMap(struct) ==
    [elementorStructure |-> buildElementorStructure(struct, "body"),
     structure |-> struct]

----------------------------------------------------------------------------
(* VisualElementorConverter *)

StructuralTags == {"section", "header", "footer", "main", "article", "nav", "aside"}

hasTextContent(e) == e.textLen > 0

determineElementorType(element, parentType) ==
    LET tagName == element.tagName
        layout == element.layout
        children == element.children
        isStructuralElement == tagName \in StructuralTags
        isLargeContainer == layout.height > 200 /\ layout.width > 300
        hasMultipleChildren == Len(children) > 2
        isFlexContainer == layout.display \in {"flex", "grid"}
        hasLayoutChildren == \E i \in 1..Len(children) : children[i].layout.width > 100
        hasContent == hasTextContent(element) \/ hasInnerHTML(element)
        hasChildren == Len(children) > 0
        isColumnCandidate == tagName \in {"div", "article", "aside", "section"}
    IN IF parentType = "body"
          /\ (isStructuralElement \/ isLargeContainer \/ hasMultipleChildren)
       THEN "section"
       ELSE IF parentType = "body" /\ tagName = "div"
               /\ (isFlexContainer \/ hasLayoutChildren \/ hasMultipleChildren)
       THEN "section"
       ELSE IF parentType = "section" /\ (hasChildren \/ hasContent \/ isColumnCandidate)
       THEN "column"
       ELSE IF parentType = "column"
       THEN "widget"
       ELSE IF Len(children) = 0
       THEN "widget"
       ELSE IF parentType = "body"
       THEN (IF element.textLen > 50 \/ Len(children) > 1 THEN "section" ELSE "widget")
       ELSE IF parentType = "section" THEN "column"
       ELSE "widget"

\* Only the widgetType and the form markup of the widget are kept.  The cases
\* for a, input/textarea/select and video/iframe are left out: the element
\* trees explored here never carry these tags.
createWidget(element) ==
    LET tagName == element.tagName
        hasContent == hasInnerHTML(element) \/ hasTextContent(element)
    IN CASE tagName \in HeadingTags -> WidgetNode("heading", FALSE)
         [] tagName = "img" -> WidgetNode("image", FALSE)
         [] tagName \in {"p", "span", "div"} ->
              IF hasContent THEN WidgetNode("text-editor", FALSE) ELSE NullNode
         [] tagName = "form" -> WidgetNode("html", TRUE)
         [] tagName \in {"ul", "ol"} -> WidgetNode("text-editor", FALSE)
         [] tagName = "button" -> WidgetNode("button", FALSE)
         [] tagName \in {"table", "tbody", "thead", "tr", "td", "th", "svg"} ->
              WidgetNode("html", containsFormMarkup(element))
         [] tagName \in {"nav", "menu"} -> WidgetNode("nav-menu", FALSE)
         [] OTHER ->
              IF hasContent \/ tagName \in {"section", "header", "footer", "article", "aside", "main"}
              THEN WidgetNode("html", containsFormMarkup(element))
              ELSE NullNode

createDefaultColumn == ColumnNode(100, <<>>)

createDefaultSection == SectionNode(<<createDefaultColumn>>)

RECURSIVE SumSeq(_)
SumSeq(s) == IF Len(s) = 0 THEN 0 ELSE Head(s) + SumSeq(Tail(s))

analyzeChildrenLayout(children) ==
    [totalWidth |-> SumSeq([i \in 1..Len(children) |-> children[i].layout.width]),
     count |-> Len(children),
     hasFlexLayout |-> \E i \in 1..Len(children) : children[i].layout.display = "flex",
     hasGridLayout |-> \E i \in 1..Len(children) : children[i].layout.display = "grid"]

\* layout.width > averageWidth * 1.5, averageWidth = totalWidth / count
isWideElement(child, layoutAnalysis) ==
    2 * layoutAnalysis.count * child.layout.width > 3 * layoutAnalysis.totalWidth

shouldStartNewColumn(child, currentChildren, layoutAnalysis) ==
    IF Len(currentChildren) = 0 THEN FALSE
    ELSE IF child.layout.position \in {"absolute", "fixed"} THEN TRUE
    ELSE IF child.tagName \in {"section", "header", "footer", "main", "article", "aside"} THEN TRUE
    ELSE IF isWideElement(child, layoutAnalysis) THEN TRUE
    ELSE IF layoutAnalysis.hasFlexLayout \/ layoutAnalysis.hasGridLayout
    THEN LET previousChild == currentChildren[Len(currentChildren)]
         IN child.layout.y > previousChild.layout.y + previousChild.layout.height
    ELSE FALSE

\* contentWeights, in tenths
contentWeight(column) ==
    LET els == column.elements
        hasMedia == \E i \in 1..Len(els) : els[i].widgetType \in {"image", "video"}
        hasForm == \E i \in 1..Len(els) : els[i].widgetType = "html" /\ els[i].htmlForm
    IN 10 + 2 * Len(els) + (IF hasMedia THEN 5 ELSE 0) + (IF hasForm THEN 3 ELSE 0)

\* Math.round(a / b) for a >= 0, b > 0
MathRound(a, b) == (2 * a + b) \div (2 * b)

Max(a, b) == IF a >= b THEN a ELSE b
Min(a, b) == IF a <= b THEN a ELSE b

MinColumnWidth == 15
MaxColumnWidth == 70

\* width of a column that is not the last one
proportionalWidth(weight, totalWeight) ==
    Max(MinColumnWidth, Min(MaxColumnWidth, MathRound(weight * 100, totalWeight)))

calculateIntelligentColumnWidths(cols) ==
    IF Len(cols) = 0 THEN <<>>
    ELSE IF Len(cols) = 1 THEN <<[cols[1] EXCEPT !.column_size = 100]>>
    ELSE LET n == Len(cols)
             contentWeights == [i \in 1..n |-> contentWeight(cols[i])]
             totalWeight == SumSeq(contentWeights)
             width == [i \in 1..(n - 1) |-> proportionalWidth(contentWeights[i], totalWeight)]
             usedWidth == SumSeq(width)
         IN [i \in 1..n |->
               [cols[i] EXCEPT !.column_size = IF i = n THEN 100 - usedWidth ELSE width[i]]]

\* a group of consecutive children becomes a column when it yields a widget
pushColumn(cols, currentColumnChildren) ==
    LET widgets == FilterBoolean([i \in 1..Len(currentColumnChildren) |->
                                    createWidget(currentColumnChildren[i])])
    IN IF Len(widgets) > 0 THEN Append(cols, ColumnNode(100, widgets)) ELSE cols

RECURSIVE groupChildren(_, _, _, _, _)
groupChildren(children, index, currentColumnChildren, cols, layoutAnalysis) ==
    IF index > Len(children)
    THEN (IF Len(currentColumnChildren) > 0
          THEN pushColumn(cols, currentColumnChildren) ELSE cols)
    ELSE LET child == children[index]
         IN IF shouldStartNewColumn(child, currentColumnChildren, layoutAnalysis)
               /\ Len(currentColumnChildren) > 0
            THEN groupChildren(children, index + 1, <<child>>,
                               pushColumn(cols, currentColumnChildren), layoutAnalysis)
            ELSE groupChildren(children, index + 1,
                               Append(currentColumnChildren, child), cols, layoutAnalysis)

createColumnsFromChildren(children) ==
    IF Len(children) = 0 THEN <<createDefaultColumn>>
    ELSE LET layoutAnalysis == analyzeChildrenLayout(children)
             cols == groupChildren(children, 1, <<>>, <<>>, layoutAnalysis)
         IN IF Len(cols) = 0 THEN <<createDefaultColumn>>
            ELSE calculateIntelligentColumnWidths(cols)

\* processElement(child, 'body', 0): under parent type 'body' determineElementorType
\* answers 'section' or 'widget' only
processElement(element) ==
    LET elementType == determineElementorType(element, "body")
    IN IF elementType = "section"
       THEN SectionNode(IF Len(element.children) > 0
                        THEN createColumnsFromChildren(element.children)
                        ELSE <<>>)
       ELSE createWidget(element)

\* "Ensure all sections have columns"
ensureColumns(node) ==
    IF node.elType = "section" /\ Len(node.elements) = 0
    THEN [node EXCEPT !.elements = <<createDefaultColumn>>]
    ELSE node

\* Priority 2 of buildElementorFromVisual: build from the raw structure
buildFromRawStructure(actualStructure) ==
    LET results == FilterBoolean([i \in 1..Len(actualStructure.children) |->
                                    processElement(actualStructure.children[i])])
        sections == IF Len(results) = 0 THEN <<createDefaultSection>> ELSE results
    IN [i \in 1..Len(sections) |-> ensureColumns(sections[i])]

\* buildElementorFromVisual for the visualData of scrapeVisualLayout:
\* findElementorStructure reaches visualStructure.elementorStructure; when its
\* elements are empty the raw walk starts at visualData itself, which has
\* neither children nor tagName
buildElementorFromVisual(visualStructure) ==
    LET preBuiltSections == visualStructure.elementorStructure.elements
    IN IF Len(preBuiltSections) > 0 THEN preBuiltSections
       ELSE <<createDefaultSection>>

\* buildElementorFromVisual for visualData { structure } without a pre-built
\* elementorStructure (the older data shape the converter still accepts)
buildElementorFromRaw(struct) ==
    IF Len(struct.children) > 0
    THEN buildFromRawStructure(struct)
    ELSE LET r == processElement(struct)
             sections == IF NotNull(r) THEN <<r>> ELSE <<createDefaultSection>>
         IN [i \in 1..Len(sections) |-> ensureColumns(sections[i])]

----------------------------------------------------------------------------
(* The template document as a JSON value, and its cleaning passes *)

\* a string of len characters; markup: it contains '<'; slack: how many of its
\* characters are whitespace runs, gaps between tags and comments, which
\* compressHtml removes; text: its characters, where the model reads them
Str(text, len, markup, slack) ==
    [kind |-> "string", text |-> text, len |-> len, markup |-> markup,
     slack |-> slack, fields |-> <<>>]

\* a string without '<'
Lit(text, len) == Str(text, len, FALSE, 0)

\* a number or a boolean that JSON.stringify writes in len characters
Num(len) ==
    [kind |-> "number", text |-> "", len |-> len, markup |-> FALSE,
     slack |-> 0, fields |-> <<>>]

Field(key, value) == [key |-> key, value |-> value]

Obj(fields) ==
    [kind |-> "object", text |-> "", len |-> 0, markup |-> FALSE,
     slack |-> 0, fields |-> fields]

\* the keys of an array are its indices, which no key test of the cleaning
\* passes matches
Arr(items) ==
    [kind |-> "array", text |-> "", len |-> 0, markup |-> FALSE,
     slack |-> 0, fields |-> [i \in 1..Len(items) |-> Field("", items[i])]]

NoTemplate ==
    [kind |-> "null", text |-> "", len |-> 0, markup |-> FALSE,
     slack |-> 0, fields |-> <<>>]

isContainer(v) == v.kind \in {"object", "array"}

has(obj, key) == \E i \in 1..Len(obj.fields) : obj.fields[i].key = key

get(obj, key) ==
    obj.fields[CHOOSE i \in 1..Len(obj.fields) : obj.fields[i].key = key].value

setField(obj, key, value) ==
    [obj EXCEPT !.fields = [i \in 1..Len(obj.fields) |->
        IF obj.fields[i].key = key THEN Field(key, value) ELSE obj.fields[i]]]

\* key.length
keyLength(key) ==
    CASE key \in {"id"}                                             -> 2
      [] key \in {"url"}                                            -> 3
      [] key \in {"type", "html"}                                   -> 4
      [] key \in {"title", "image", "align"}                        -> 5
      [] key \in {"elType", "height"}                               -> 6
      [] key \in {"version", "content", "isInner", "caption"}       -> 7
      [] key \in {"metadata", "settings", "elements"}               -> 8
      [] key \in {"cloned_by", "structure"}                         -> 9
      [] key \in {"custom_css", "created_at", "source_url",
                  "widgetType", "image_size"}                       -> 10
      [] key \in {"_element_id"}                                    -> 11
      [] key \in {"_column_size"}                                   -> 12
      [] key \in {"page_settings", "clone_version", "content_width"} -> 13
      [] key \in {"fidelity_score", "total_elements", "sections_count",
                  "capture_method"}                                 -> 14
      [] key \in {"elementor_version"}                              -> 17
      [] key \in {"verification_passed"}                            -> 19
      [] OTHER                                                      -> 0

\* JSON.stringify(value).length, for strings that need no escaping
RECURSIVE jsonSize(_)
jsonSize(v) ==
    LET n == Len(v.fields)
        commas == IF n > 0 THEN n - 1 ELSE 0
    IN CASE v.kind = "string" -> v.len + 2
         [] v.kind = "number" -> v.len
         [] v.kind = "object" ->
              2 + commas + SumSeq([i \in 1..n |->
                      keyLength(v.fields[i].key) + 3 + jsonSize(v.fields[i].value)])
         [] v.kind = "array" ->
              2 + commas + SumSeq([i \in 1..n |-> jsonSize(v.fields[i].value)])
         [] OTHER -> 4

\* key.includes('HTML'), over the keys the documents and the key list hold
includesHTML(key) == key \in {"completeHTML", "outerHTML", "innerHTML"}

\* "Skip ALL problematic keys"
problematicKey(key) ==
    \/ key \in {"completeHTML", "fallback_html", "original_assets", "outerHTML",
                "innerHTML", "styles", "allAttributes", "data-*"}
    \/ includesHTML(key)

\* "Replace with minimal placeholder"
Placeholder == Str("<p>Optimized</p>", 16, TRUE, 0)

\* typeof value === 'string' && value.length > 1000 && value.includes('<')
isLargeHtml(value) == value.kind = "string" /\ value.len > 1000 /\ value.markup

RECURSIVE cleanContent(_)
cleanContent(obj) ==
    IF ~isContainer(obj) THEN obj
    ELSE LET kept == SelectSeq(obj.fields, LAMBDA f : ~problematicKey(f.key))
         IN [obj EXCEPT !.fields = [i \in 1..Len(kept) |->
                Field(kept[i].key,
                      IF isLargeHtml(kept[i].value) THEN Placeholder
                      ELSE cleanContent(kept[i].value))]]

validateAndCleanTemplate(t) == cleanContent(t)

\* whitespace runs become one space, gaps between tags and comments go
compressHtml(html) == [html EXCEPT !.len = html.len - html.slack, !.slack = 0]

RECURSIVE compressContent(_)
compressContent(obj) ==
    IF ~isContainer(obj) THEN obj
    ELSE [obj EXCEPT !.fields = [i \in 1..Len(obj.fields) |->
            LET value == obj.fields[i].value
            IN Field(obj.fields[i].key,
                     IF value.kind = "string" /\ value.len > 2000 /\ value.markup
                     THEN compressHtml(value)
                     ELSE compressContent(value))]]

compressHtmlContent(t) == compressContent(t)

\* the metadata smartCleanTemplate keeps; its elementsCount is read from a
\* key the assembled metadata does not have, so it is undefined and
\* JSON.stringify leaves it out
essentialMetadata_Unchanged(metadata) == metadata

essentialMetadata(metadata) ==
    Obj(<<Field("created_at", get(metadata, "created_at")),
          Field("source_url", get(metadata, "source_url")),
          Field("cloned_by", Lit("CloneMentor Pro - Smart Clean", 29)),
          Field("fidelity_score", get(metadata, "fidelity_score"))>>)

\* JSON.parse(JSON.stringify(template)) copies the value
smartCleanTemplate(t) ==
    LET smartCleaned == IF has(t, "metadata")
                        THEN setField(t, "metadata", essentialMetadata(get(t, "metadata")))
                        ELSE t
    IN compressHtmlContent(smartCleaned)

\* finalSize > 150000
SizeThreshold == 150000

\* generateElementId()
ElementId == Lit("", 8)

\* createWidget, default case: settings.html is the element's markup
htmlWidgetJson(html) ==
    Obj(<<Field("id", ElementId),
          Field("elType", Lit("widget", 6)),
          Field("widgetType", Lit("html", 4)),
          Field("settings", Obj(<<Field("_element_id", ElementId),
                                  Field("html", html),
                                  Field("title", Lit("DIV Element", 11))>>))>>)

\* createWidget, case 'img': settings.image.url is the src attribute
imageWidgetJson(src) ==
    Obj(<<Field("id", ElementId),
          Field("elType", Lit("widget", 6)),
          Field("widgetType", Lit("image", 5)),
          Field("settings", Obj(<<Field("_element_id", ElementId),
                                  Field("image", Obj(<<Field("url", src)>>)),
                                  Field("image_size", Lit("full", 4)),
                                  Field("caption", Lit("", 0)),
                                  Field("align", Lit("center", 6))>>))>>)

columnJson(widgets) ==
    Obj(<<Field("id", ElementId),
          Field("elType", Lit("column", 6)),
          Field("settings", Obj(<<Field("_column_size", Num(3))>>)),
          Field("elements", Arr(widgets)),
          Field("isInner", Num(5))>>)

sectionJson(cols) ==
    Obj(<<Field("id", ElementId),
          Field("elType", Lit("section", 7)),
          Field("settings", Obj(<<Field("content_width", Lit("boxed", 5)),
                                  Field("height", Lit("default", 7)),
                                  Field("structure", Lit("10", 2))>>)),
          Field("elements", Arr(cols)),
          Field("isInner", Num(5))>>)

\* the template of convertVisualToElementor for a content of one column per
\* section, rows[i] being the widgets of section i
assembleTemplate(rows) ==
    Obj(<<Field("version", Lit("0.4", 3)),
          Field("title", Lit("Cloned Page", 11)),
          Field("type", Lit("page", 4)),
          Field("content", Arr([i \in 1..Len(rows) |->
                                   sectionJson(<<columnJson(rows[i])>>)])),
          Field("page_settings", Obj(<<Field("custom_css", Lit("", 200))>>)),
          Field("metadata",
                Obj(<<Field("created_at", Lit("", 24)),
                      Field("source_url", Lit("", 19)),
                      Field("cloned_by", Lit("CloneMentor Pro v2.1 - Optimized", 32)),
                      Field("elementor_version", Lit("3.16.0", 6)),
                      Field("clone_version", Lit("2.1", 3)),
                      Field("fidelity_score", Num(4)),
                      Field("verification_passed", Num(4)),
                      Field("total_elements", Num(1)),
                      Field("sections_count", Num(1)),
                      Field("capture_method", Lit("lean-structure-focused", 22))>>))>>)

\* nodes of the given elType below (and including) a value
RECURSIVE countElType(_, _)
countElType(v, t) ==
    (IF v.kind = "object" /\ has(v, "elType") /\ get(v, "elType").text = t
     THEN 1 ELSE 0)
    + SumSeq([i \in 1..Len(v.fields) |-> countElType(v.fields[i].value, t)])

----------------------------------------------------------------------------
(* FidelityVerifier: comparisons *)

Devices == {"desktop", "tablet", "mobile"}

\* a screenshot buffer or layout array that is absent
Missing == -1

Abs(x) == IF x < 0 THEN -x ELSE x

\* buffers are given by their lengths
compareScreenshots_LowerBucket(originalBuffer, cloneBuffer) ==
    IF originalBuffer = Missing \/ cloneBuffer = Missing THEN Rat(2, 10)
    ELSE IF originalBuffer + cloneBuffer = 0 THEN Rat(1, 10)
    ELSE LET sizeRatio == Rat(2 * Abs(originalBuffer - cloneBuffer),
                              originalBuffer + cloneBuffer)
         IN IF RLt(sizeRatio, Rat(5, 100)) THEN Rat(6, 10)
            ELSE IF RLt(sizeRatio, Rat(3, 10)) THEN Rat(4, 10)
            ELSE IF RLt(sizeRatio, Rat(5, 10)) THEN Rat(3, 10)
            ELSE Rat(1, 10)

compareScreenshots(originalBuffer, cloneBuffer) ==
    IF originalBuffer = Missing \/ cloneBuffer = Missing THEN Rat(2, 10)
    ELSE IF originalBuffer + cloneBuffer = 0 THEN Rat(1, 10)
    ELSE LET sizeRatio == Rat(2 * Abs(originalBuffer - cloneBuffer),
                              originalBuffer + cloneBuffer)
         IN IF RLt(sizeRatio, Rat(5, 100)) THEN Rat(8, 10)
            ELSE IF RLt(sizeRatio, Rat(15, 100)) THEN Rat(6, 10)
            ELSE IF RLt(sizeRatio, Rat(3, 10)) THEN Rat(4, 10)
            ELSE IF RLt(sizeRatio, Rat(5, 10)) THEN Rat(3, 10)
            ELSE Rat(1, 10)

RECURSIVE RSumOver(_, _)
RSumOver(S, f) ==
    IF S = {} THEN Zero
    ELSE LET x == CHOOSE y \in S : TRUE IN RAdd(f[x], RSumOver(S \ {x}, f))

\* original, clone: device -> screenshot length
compareVisualFidelity(original, clone) ==
    LET compared == {d \in Devices : original[d] # Missing /\ clone[d] # Missing}
        score == [d \in compared |-> compareScreenshots(original[d], clone[d])]
    IN IF Cardinality(compared) > 0
       THEN RDivInt(RSumOver(compared, score), Cardinality(compared))
       ELSE Zero

metrics == {"elementCount", "textNodes", "images", "sections", "containers",
            "headings", "links"}

\* one element's contribution; the switch has no case for 'elementCount'
countsAs(e, type) ==
    CASE type = "images"     -> e.tagName = "img"
      [] type = "sections"   -> e.tagName \in {"section", "header", "footer", "main", "article"}
      [] type = "containers" -> e.tagName = "div"
      [] type = "headings"   -> e.tagName \in HeadingTags
      [] type = "links"      -> e.tagName = "a"
      [] type = "textNodes"  -> e.textLen > 0
      [] OTHER               -> FALSE

RECURSIVE countElementsInStructure(_, _)
countElementsInStructure(e, type) ==
    (IF countsAs(e, type) THEN 1 ELSE 0)
    + SumSeq([i \in 1..Len(e.children) |-> countElementsInStructure(e.children[i], type)])

hasValidContent(struct) ==
    \/ countElementsInStructure(struct, "textNodes") > 0
    \/ countElementsInStructure(struct, "containers") > 0
    \/ countElementsInStructure(struct, "images") > 0
    \/ countElementsInStructure(struct, "headings") > 0

\* metricScore giving nothing when only one side has a count
metricScore_NoPartial(original, cloned) ==
    IF original = 0 /\ cloned = 0 THEN One
    ELSE IF original = 0 \/ cloned = 0 THEN Zero
    ELSE RMin(One, RMul(Rat(Min(original, cloned), Max(original, cloned)), Rat(14, 10)))

metricScore(original, cloned) ==
    IF original = 0 /\ cloned = 0 THEN One
    ELSE IF original = 0 \/ cloned = 0 THEN Rat(3, 10)
    ELSE RMin(One, RMul(Rat(Min(original, cloned), Max(original, cloned)), Rat(14, 10)))

\* originalStructure: metric -> count (extractPageStructure); clonedStructure:
\* the captured element tree.  Both are present when verifyFidelity calls it.
compareStructuralFidelity(originalStructure, clonedStructure) ==
    LET per == [m \in metrics |->
                  metricScore(originalStructure[m],
                              countElementsInStructure(clonedStructure, m))]
        checks == Cardinality(metrics)
        sum == RSumOver(metrics, per)
        score == IF checks < 3 /\ RLt(Zero, sum)
                 THEN RMin(RMul(sum, Rat(13, 10)), Rat(checks, 1)) ELSE sum
        finalScore == IF checks > 0 THEN RDivInt(score, checks) ELSE Rat(6, 10)
    IN IF hasValidContent(clonedStructure)
       THEN RMin(RMul(finalScore, Rat(12, 10)), One)
       ELSE finalScore

\* layouts are given by their lengths
compareLayoutArrays(originalLayout, clonedLayout) ==
    IF originalLayout = 0 /\ clonedLayout = 0 THEN One
    ELSE IF originalLayout = 0 \/ clonedLayout = 0 THEN Rat(5, 10)
    ELSE LET ratio == Rat(Min(originalLayout, clonedLayout), Max(originalLayout, clonedLayout))
         IN IF RLe(Rat(8, 10), ratio) THEN One
            ELSE IF RLe(Rat(6, 10), ratio) THEN Rat(9, 10)
            ELSE IF RLe(Rat(4, 10), ratio) THEN Rat(8, 10)
            ELSE IF RLe(Rat(2, 10), ratio) THEN Rat(7, 10)
            ELSE Rat(6, 10)

\* originalResponsive, clonedResponsive: device -> layout length or Missing
compareResponsiveness(originalResponsive, clonedResponsive) ==
    LET both == {d \in Devices : originalResponsive[d] # Missing /\ clonedResponsive[d] # Missing}
        one == {d \in Devices \ both :
                   originalResponsive[d] # Missing \/ clonedResponsive[d] # Missing}
        score == [d \in both \cup one |->
                    IF d \in both
                    THEN compareLayoutArrays(originalResponsive[d], clonedResponsive[d])
                    ELSE Rat(5, 10)]
        comparisons == Cardinality(both \cup one)
        sum == RSumOver(both \cup one, score)
        totalScore == IF comparisons < 2
                      THEN RMin(RMul(sum, Rat(12, 10)), Rat(comparisons, 1)) ELSE sum
    IN IF comparisons = 0 THEN Rat(75, 100) ELSE RDivInt(totalScore, comparisons)

\* number of captured elements with a non-empty box
RECURSIVE countVisible(_)
countVisible(e) ==
    (IF e.layout.width > 0 /\ e.layout.height > 0 THEN 1 ELSE 0)
    + SumSeq([i \in 1..Len(e.children) |-> countVisible(e.children[i])])

\* every breakpoint capture of scannedData holds the captured tree
extractResponsiveFromClone(scannedData) ==
    [d \in Devices |-> countVisible(scannedData.structure)]

validateScannedContent(scannedData) ==
    LET qualityIndicators ==
            (IF hasValidContent(scannedData.structure) THEN {"structure"} ELSE {})
            \cup (IF scannedData.title THEN {"metadata"} ELSE {})
            \cup (IF scannedData.images > 2 THEN {"images"} ELSE {})
            \cup (IF scannedData.fonts > 1 THEN {"fonts"} ELSE {})
    IN "structure" \in qualityIndicators /\ Cardinality(qualityIndicators) >= 2

\* a catch block that keeps the sub-scores computed before the failure
kept(computed, fixed) == IF computed = Zero THEN fixed ELSE computed

fallbackReport_KeepsComputed(r, scannedData) ==
    LET valid == validateScannedContent(scannedData)
        c == [r EXCEPT !.error = TRUE,
                       !.structuralScore =
                           kept(@, IF valid THEN Rat(25, 100) ELSE Rat(10, 100)),
                       !.visualScore =
                           kept(@, IF valid THEN Rat(15, 100) ELSE Rat(5, 100)),
                       !.responsiveScore =
                           kept(@, IF valid THEN Rat(20, 100) ELSE Rat(10, 100))]
        score == calculateOverallScore(c)
    IN [c EXCEPT !.fidelityScore = score,
                 !.passed = valid /\ RLe(toleranceThreshold, score),
                 !.fallback = TRUE, !.status = "returned"]

\* the catch block of verifyFidelity
fallbackReport(r, scannedData) ==
    IF validateScannedContent(scannedData)
    THEN LET c == [r EXCEPT !.error = TRUE, !.structuralScore = Rat(25, 100),
                            !.visualScore = Rat(15, 100), !.responsiveScore = Rat(20, 100)]
             score == calculateOverallScore(c)
         IN [c EXCEPT !.fidelityScore = score,
                      !.passed = RLe(toleranceThreshold, score),
                      !.fallback = TRUE, !.status = "returned"]
    ELSE LET c == [r EXCEPT !.error = TRUE, !.structuralScore = Rat(10, 100),
                            !.visualScore = Rat(5, 100), !.responsiveScore = Rat(10, 100)]
         IN [c EXCEPT !.fidelityScore = calculateOverallScore(c),
                      !.passed = FALSE,
                      !.fallback = TRUE, !.status = "returned"]

----------------------------------------------------------------------------
(* Default values of the variables a specification does not use *)

NoData == [captured |-> FALSE]
NoNav == [log |-> <<>>, raised |-> "none"]
NoResponse == [kind |-> "none", success |-> FALSE, template |-> FALSE,
               canRetry |-> FALSE, skipVerificationAvailable |-> FALSE]

NotApplied == [fn |-> "none", args |-> <<>>, result |-> <<>>]
NotScrolling == [at |-> "idle", remaining |-> 0, grown |-> FALSE]

Callers == 1..MaxCallers
IdleCall == [at |-> "idle", handle |-> "null"]
NoBrowsers == [live |-> {}, launched |-> 0]

NoRequest ==
    /\ skipVerification = FALSE
    /\ scanned = NoData
    /\ navLog = NoNav
    /\ vNavLog = NoNav
    /\ sBrowser = "null"
    /\ vBrowser = "null"
    /\ response = NoResponse
    /\ progressData = <<>>
    /\ pages = 0
    /\ errorMessage = "none"
    /\ calls = [c \in Callers |-> IdleCall]
    /\ browsers = NoBrowsers
    /\ assembledTemplate = NoTemplate
    /\ validatedTemplate = NoTemplate
    /\ returned = NoTemplate
    /\ globalColors = <<>>
    /\ globalFonts = <<>>
    /\ conversions = <<>>
    /\ applied = NotApplied

RequestIdle == NoRequest /\ scroll = NotScrolling

\* the handler's own callbacks only record the progress and return
ScanIdle == RequestIdle /\ callback = "returns"

ConvIdle ==
    /\ structure = BodyElement(<<>>)
    /\ content = <<>>

----------------------------------------------------------------------------
(* ScoreSpec: calculateOverallScore applied to a report with given sub-scores *)

Grid == {Rat(k, GridN) : k \in 0..GridN}

ScoreInit ==
    /\ pc = "score_input"
    /\ \E v \in Grid, s \in Grid, r \in Grid :
          report = [NewReport EXCEPT !.visualScore = v, !.structuralScore = s,
                                     !.responsiveScore = r]
    /\ ScanIdle /\ ConvIdle /\ columns = <<>>

\* verifyFidelity lines 76-80
CalculateFinalScore ==
    /\ pc = "score_input"
    /\ LET score == calculateOverallScore(report)
       IN report' = [report EXCEPT !.fidelityScore = score,
                                   !.passed = RLe(toleranceThreshold, score)]
    /\ pc' = "scored"
    /\ UNCHANGED <<scanVars, convVars, columns>>

ScoreNext == CalculateFinalScore

ScoreSpec == ScoreInit /\ [][ScoreNext]_vars

----------------------------------------------------------------------------
(* WidthSpec: columns are collected, then sized *)

TextWidget == WidgetNode("text-editor", FALSE)
ImageWidget == WidgetNode("image", FALSE)
FormWidget == WidgetNode("html", TRUE)

\* widget lists a column is created with
WidgetLists ==
    {<<TextWidget>>, <<ImageWidget>>, <<FormWidget>>, <<TextWidget, TextWidget>>,
     <<ImageWidget, FormWidget>>}

WidthInit ==
    /\ pc = "collecting"
    /\ columns = <<>>
    /\ report = NewReport
    /\ ScanIdle /\ ConvIdle

\* columns.push(column) in createColumnsFromChildren
PushColumn ==
    /\ pc = "collecting"
    /\ Len(columns) < MaxCols
    /\ \E widgets \in WidgetLists : columns' = Append(columns, ColumnNode(100, widgets))
    /\ UNCHANGED <<pc, report, scanVars, convVars>>

CalculateWidths ==
    /\ pc = "collecting"
    /\ Len(columns) > 0
    /\ columns' = calculateIntelligentColumnWidths(columns)
    /\ pc' = "sized"
    /\ UNCHANGED <<report, scanVars, convVars>>

WidthNext == PushColumn \/ CalculateWidths

WidthSpec == WidthInit /\ [][WidthNext]_vars

----------------------------------------------------------------------------
(* ConvSpec: the DOM walk captures a tree, the converter turns it into content *)

Leaf(tag, textLen, w, h, display) ==
    Element(tag, textLen, w, h, display, "row", "static", 0, <<>>)

\* elements the walk can meet
Palette ==
    {Leaf("p", 5, 200, 50, "block"),
     Leaf("h1", 5, 200, 50, "block"),
     Leaf("img", 0, 150, 100, "inline"),
     Leaf("div", 0, 200, 100, "block"),
     Leaf("div", 0, 400, 100, "flex"),
     Leaf("main", 0, 400, 300, "block")}

ContainerTags == {"body", "div", "main"}

RECURSIVE countNodes(_)
countNodes(e) ==
    1 + SumSeq([i \in 1..Len(e.children) |-> countNodes(e.children[i])])

\* depth of the last element visited (body = 0)
RECURSIVE spineDepth(_)
spineDepth(e) ==
    IF Len(e.children) = 0 THEN 0 ELSE 1 + spineDepth(e.children[Len(e.children)])

\* tag of the element at depth d on the path to the last element visited
RECURSIVE spineTag(_, _)
spineTag(e, d) ==
    IF d = 0 THEN e.tagName ELSE spineTag(e.children[Len(e.children)], d - 1)

\* children.push(childMap) for a child visited at depth d
RECURSIVE pushChild(_, _, _)
pushChild(e, d, child) ==
    IF d = 1 THEN [e EXCEPT !.children = Append(@, child)]
    ELSE [e EXCEPT !.children[Len(e.children)] = pushChild(@, d - 1, child)]

ConvInit ==
    /\ pc = "capturing"
    /\ structure = BodyElement(<<>>)
    /\ content = <<>>
    /\ report = NewReport
    /\ columns = <<>>
    /\ ScanIdle

\* mapElement visits the next element of the document, in document order
MapElement ==
    /\ pc = "capturing"
    /\ countNodes(structure) - 1 < MaxNodes
    /\ \E child \in Palette, d \in 1..MaxDepth :
          /\ d <= spineDepth(structure) + 1
          /\ spineTag(structure, d - 1) \in ContainerTags
          /\ structure' = pushChild(structure, d, child)
    /\ UNCHANGED <<pc, content, report, columns, scanVars>>

\* convertVisualToElementor on the visualData of scrapeVisualLayout
ConvertScraped ==
    /\ pc = "capturing"
    /\ content' = buildElementorFromVisual(buildVisualStructureMap(structure))
    /\ pc' = "converted_prebuilt"
    /\ UNCHANGED <<structure, report, columns, scanVars>>

\* convertVisualToElementor on visualData without elementorStructure
ConvertRaw ==
    /\ pc = "capturing"
    /\ content' = buildElementorFromRaw(structure)
    /\ pc' = "converted_raw"
    /\ UNCHANGED <<structure, report, columns, scanVars>>

ConvNext == MapElement \/ ConvertScraped \/ ConvertRaw

ConvSpec == ConvInit /\ [][ConvNext]_vars

----------------------------------------------------------------------------
(* Spec: POST /scan *)

P1 == Leaf("p", 5, 200, 50, "block")
H1 == Leaf("h1", 5, 200, 50, "block")
Div(kids) == Element("div", 0, 200, 100, "block", "row", "static", 0, kids)
Main(kids) == Element("main", 0, 400, 300, "block", "row", "static", 0, kids)

\* pages the request is made for: an empty body, a heading with a paragraph,
\* a main element holding two narrow blocks
SampleStructures ==
    {BodyElement(<<>>),
     BodyElement(<<H1, P1>>),
     BodyElement(<<Main(<<Div(<<P1>>), Div(<<P1>>)>>)>>)}

\* visualData of a successful scrape: the captured tree, whether the page has
\* a title, and the numbers of harvested images and fonts
ScannedData ==
    [captured : {TRUE}, structure : SampleStructures, title : BOOLEAN,
     images : {0, 1, 3}, fonts : {1, 2}]

\* encoded screenshot sizes, counts reported by extractPageStructure and
\* layout lengths reported by captureLayoutStructure for the original page
OriginalShotSizes == {100, 140}
CloneShotSizes == {100, 104, 112, 200}
OriginalCounts == 0..1
OriginalLayoutLengths == {1, 12}

CascadeOrder == <<"networkidle0", "networkidle2", "domcontentloaded">>

Respond(kind, success, template, retry, skipAvailable) ==
    [kind |-> kind, success |-> success, template |-> template,
     canRetry |-> retry, skipVerificationAvailable |-> skipAvailable]

\* the catch block of the handler: res.status(500)
Error500 == Respond("error500", FALSE, FALSE, FALSE, FALSE)

Init ==
    /\ pc = "idle"
    /\ ScanIdle /\ ConvIdle
    /\ report = NewReport
    /\ columns = <<>>

\* progress percentages scrapeVisualLayout hands to its callback before
\* page.goto and after it (28 + i * floor(7 / 3) for the three breakpoints)
ConnectProgress == <<2, 8>>
CaptureProgress == <<15, 22, 28, 28, 30, 32, 42, 58, 72, 88, 95>>

\* numbers of callbacks of CaptureProgress made when an awaited step rejects:
\* scroll, extractPageInfo, the three captureLayoutAtBreakpoint calls,
\* extractVisualAssets, buildVisualStructureMap
CaptureFailurePoints == {1, 2, 4, 5, 6, 7, 9}

\* the handler's wrapper around the scraper's progress: Math.min(progress, 95)
scraperCap(p) == Min(p, 95) * 100

\* the handler's wrapper around the verifier's progress:
\* Math.min(96 + progress * 0.01, 97)
verifierCap(p) == Min(9600 + p, 9700)

Prefix(s, n) == SubSeq(s, 1, n)

\* progressCallback?.(...) for each of the given percentages
scraperCallback(log, percentages) ==
    IF callback = "absent" THEN log
    ELSE log \o [i \in 1..Len(percentages) |-> scraperCap(percentages[i])]

verifierCallback(log, percentages) ==
    IF callback = "absent" THEN log
    ELSE log \o [i \in 1..Len(percentages) |-> verifierCap(percentages[i])]

\* updateProgress({ progress }) called by the handler itself
updateProgress(log, percentage) == Append(log, percentage * 100)

newPage(n) == n + 1
closePage(n) == n - 1

\* await page.close() in a catch block, before the error is thrown again
closeOnError_Missing(n) == n

closeOnError(n) == closePage(n)

\* a request arrives; url missing or malformed is answered with status 400
Request ==
    /\ pc = "idle"
    /\ \E skip \in BOOLEAN, urlOk \in BOOLEAN :
          /\ skipVerification' = skip
          /\ IF urlOk
             THEN /\ pc' = "scrape_init"
                  /\ progressData' = updateProgress(progressData, 1)
                  /\ UNCHANGED response
             ELSE /\ pc' = "done"
                  /\ response' = Respond("bad_request", FALSE, FALSE, FALSE, FALSE)
                  /\ UNCHANGED progressData
    /\ UNCHANGED <<scanned, navLog, vNavLog, sBrowser, vBrowser, report, convVars, idleVars,
                   callback, pages, errorMessage>>

\* VisualWebScraper.initialize
ScraperInitialize ==
    /\ pc = "scrape_init"
    /\ \/ /\ sBrowser' = "open"
          /\ pc' = "scrape_goto"
          /\ UNCHANGED <<response, errorMessage>>
       \/ /\ sBrowser = "null"          \* puppeteer.launch rejects
          /\ pc' = "done"
          /\ response' = Error500
          /\ errorMessage' = "launch"
          /\ UNCHANGED sBrowser
    /\ UNCHANGED <<skipVerification, scanned, navLog, vNavLog, vBrowser, report,
                   convVars, idleVars, callback, progressData, pages>>

\* scrapeVisualLayout: newPage, then the single page.goto
ScraperNavigate ==
    /\ pc = "scrape_goto"
    /\ progressData' = scraperCallback(progressData, ConnectProgress)
    /\ \E ok \in BOOLEAN :
          /\ navLog' = [log |-> <<[strategy |-> "networkidle0", ok |-> ok]>>,
                        raised |-> IF ok THEN "none" ELSE "networkidle0"]
          /\ IF ok
             THEN /\ pc' = "scrape_capture"
                  /\ pages' = newPage(pages)
                  /\ UNCHANGED <<response, errorMessage>>
             ELSE /\ pc' = "done"
                  /\ pages' = closeOnError(newPage(pages))
                  /\ response' = Error500
                  /\ errorMessage' = "navigation"
    /\ UNCHANGED <<skipVerification, scanned, vNavLog, sBrowser, vBrowser, report,
                   convVars, idleVars, callback>>

\* scrapeVisualLayout after navigation: scroll, page info, the three
\* breakpoint captures, assets, structure map
ScraperCapture ==
    /\ pc = "scrape_capture"
    /\ \/ /\ \E d \in ScannedData : scanned' = d
          /\ progressData' = scraperCallback(progressData, CaptureProgress)
          /\ pages' = closePage(pages)
          /\ pc' = "verify_init"
          /\ UNCHANGED <<response, errorMessage>>
       \/ /\ \E k \in CaptureFailurePoints :   \* a step rejects: page.close(); throw
                progressData' = scraperCallback(progressData, Prefix(CaptureProgress, k))
          /\ pages' = closeOnError(pages)
          /\ pc' = "done"
          /\ response' = Error500
          /\ errorMessage' = "capture"
          /\ UNCHANGED scanned
    /\ UNCHANGED <<skipVerification, navLog, vNavLog, sBrowser, vBrowser, report,
                   convVars, idleVars, callback>>

\* handler line 73, then verifyFidelity lines 20-22: initialize() and the first
\* callback run before the try block
VerifierInitialize ==
    /\ pc = "verify_init"
    /\ \/ /\ vBrowser' = "open"
          /\ pc' = "v_nav"
          /\ report' = NewReport
          /\ progressData' = verifierCallback(updateProgress(progressData, 96), <<5>>)
          /\ UNCHANGED <<response, errorMessage>>
       \/ /\ vBrowser = "null"          \* puppeteer.launch rejects
          /\ report' = [NewReport EXCEPT !.status = "thrown"]
          /\ pc' = "done"
          /\ response' = Error500
          /\ errorMessage' = "launch"
          /\ progressData' = updateProgress(progressData, 96)
          /\ UNCHANGED vBrowser
    /\ UNCHANGED <<skipVerification, scanned, navLog, vNavLog, sBrowser,
                   convVars, idleVars, callback, pages>>

\* captureOriginalSite: the next strategy of the cascade
VerifierNavigate ==
    /\ pc = "v_nav"
    /\ Len(vNavLog.log) < Len(CascadeOrder)
    /\ LET strategy == CascadeOrder[Len(vNavLog.log) + 1]
           \* the page is opened before the first strategy
           opened == IF Len(vNavLog.log) = 0 THEN newPage(pages) ELSE pages
       IN /\ progressData' = IF Len(vNavLog.log) = 0
                             THEN verifierCallback(progressData, <<20>>)
                             ELSE progressData
          /\ \E ok \in BOOLEAN :
               LET log == Append(vNavLog.log, [strategy |-> strategy, ok |-> ok])
               IN IF ok
                  THEN /\ vNavLog' = [log |-> log, raised |-> "none"]
                       /\ pc' = "v_capture"
                       /\ pages' = opened
                       /\ UNCHANGED errorMessage
                  ELSE IF Len(log) < Len(CascadeOrder)
                  THEN /\ vNavLog' = [log |-> log, raised |-> "none"]
                       /\ pc' = "v_nav"
                       /\ pages' = opened
                       /\ UNCHANGED errorMessage
                  ELSE /\ vNavLog' = [log |-> log, raised |-> strategy]
                       /\ pc' = "v_fallback"
                       /\ pages' = closeOnError(opened)
                       /\ errorMessage' = "navigation"
    /\ UNCHANGED <<skipVerification, scanned, navLog, sBrowser, vBrowser, report,
                   response, convVars, idleVars, callback>>

\* renderClonedStructure: the callback of line 43, then newPage
VerifierRender ==
    /\ pc = "v_render"
    /\ progressData' = verifierCallback(progressData, <<40>>)
    /\ pages' = newPage(pages)
    /\ pc' = "v_render_capture"
    /\ UNCHANGED <<skipVerification, scanned, navLog, vNavLog, sBrowser, vBrowser, report,
                   response, convVars, idleVars, callback, errorMessage>>

\* the screenshots and layouts of captureOriginalSite (after navigation) and
\* of renderClonedStructure
VerifierCapture ==
    /\ pc \in {"v_capture", "v_render_capture"}
    /\ \/ /\ pc' = (IF pc = "v_capture" THEN "v_render" ELSE "v_visual")
          /\ pages' = closePage(pages)
          /\ UNCHANGED errorMessage
       \/ /\ pc' = "v_fallback"         \* a step rejects: page.close(); throw
          /\ pages' = closeOnError(pages)
          /\ errorMessage' = "capture"
    /\ UNCHANGED <<skipVerification, scanned, navLog, vNavLog, sBrowser, vBrowser, report,
                   response, convVars, idleVars, callback, progressData>>

VerifierCompareVisual ==
    /\ pc = "v_visual"
    /\ progressData' = verifierCallback(progressData, <<60>>)
    /\ \E original \in [Devices -> OriginalShotSizes], clone \in [Devices -> CloneShotSizes] :
          report' = [report EXCEPT !.visualScore = compareVisualFidelity(original, clone)]
    /\ pc' = "v_structural"
    /\ UNCHANGED <<skipVerification, scanned, navLog, vNavLog, sBrowser, vBrowser,
                   response, convVars, idleVars, callback, pages, errorMessage>>

VerifierCompareStructural ==
    /\ pc = "v_structural"
    /\ progressData' = verifierCallback(progressData, <<75>>)
    /\ \E n \in OriginalCounts, k \in OriginalCounts :
          LET originalStructure ==
                [m \in metrics |-> CASE m = "elementCount" -> 3 + n + k
                                     [] m \in {"textNodes", "headings"} -> n
                                     [] OTHER -> k]
          IN report' = [report EXCEPT !.structuralScore =
                           compareStructuralFidelity(originalStructure, scanned.structure)]
    /\ pc' = "v_responsive"
    /\ UNCHANGED <<skipVerification, scanned, navLog, vNavLog, sBrowser, vBrowser,
                   response, convVars, idleVars, callback, pages, errorMessage>>

VerifierCompareResponsive ==
    /\ pc = "v_responsive"
    /\ progressData' = verifierCallback(progressData, <<85>>)
    /\ \E originalResponsive \in [Devices -> OriginalLayoutLengths] :
          report' = [report EXCEPT !.responsiveScore =
                        compareResponsiveness(originalResponsive,
                                              extractResponsiveFromClone(scanned))]
    /\ pc' = "v_final"
    /\ UNCHANGED <<skipVerification, scanned, navLog, vNavLog, sBrowser, vBrowser,
                   response, convVars, idleVars, callback, pages, errorMessage>>

\* verifyFidelity lines 74-94
VerifierFinish ==
    /\ pc = "v_final"
    /\ progressData' = verifierCallback(progressData, <<95>>)
    /\ LET score == calculateOverallScore(report)
       IN report' = [report EXCEPT !.fidelityScore = score,
                                   !.passed = RLe(toleranceThreshold, score),
                                   !.status = "returned"]
    /\ pc' = "gate"
    /\ UNCHANGED <<skipVerification, scanned, navLog, vNavLog, sBrowser, vBrowser,
                   response, convVars, idleVars, callback, pages, errorMessage>>

\* verifyFidelity lines 96-145
VerifierFallback ==
    /\ pc = "v_fallback"
    /\ report' = fallbackReport(report, scanned)
    /\ pc' = "gate"
    /\ UNCHANGED <<scanVars, convVars, columns>>

failedInitialChecks(scannedData) ==
    \* hasContent holds for every captured page; the structure operand of
    \* hasMinimumComplexity is an object, which never compares > 1
    (IF scannedData.images > 0 THEN {} ELSE {"hasMinimumComplexity"})
    \cup (IF scannedData.title THEN {} ELSE {"hasValidMetadata"})

shouldProceed(skip, r, scannedData) ==
    \/ skip
    \/ r.passed
    \/ (RLe(Rat(4, 10), r.fidelityScore)
        /\ Cardinality(failedInitialChecks(scannedData)) <= 1)

\* handler lines 80-139
Gate ==
    /\ pc = "gate"
    /\ progressData' = IF shouldProceed(skipVerification, report, scanned)
                       THEN progressData
                       ELSE updateProgress(progressData, 90)   \* verification_warning
    /\ IF /\ ~shouldProceed(skipVerification, report, scanned)
          /\ RLt(report.fidelityScore, Rat(3, 10))
          /\ Cardinality(failedInitialChecks(scanned)) > 1
       THEN /\ response' = Respond("verification_failed", FALSE, FALSE, TRUE, TRUE)
            /\ pc' = "done"
       ELSE /\ pc' = "convert"
            /\ UNCHANGED response
    /\ UNCHANGED <<skipVerification, scanned, navLog, vNavLog, sBrowser, vBrowser,
                   report, convVars, idleVars, callback, pages, errorMessage>>

\* handler lines 141-264
Convert ==
    /\ pc = "convert"
    /\ LET template == buildElementorFromVisual(buildVisualStructureMap(scanned.structure))
           validated == updateProgress(updateProgress(progressData, 97), 98)
       IN /\ content' = template
          /\ IF Len(template) > 0
             THEN /\ response' = Respond("success", TRUE, TRUE, FALSE, FALSE)
                  /\ progressData' = updateProgress(validated, 100)
             ELSE /\ response' = Respond("template_invalid", FALSE, FALSE, TRUE, FALSE)
                  /\ progressData' = updateProgress(validated, 99)
    /\ pc' = "done"
    /\ UNCHANGED <<skipVerification, scanned, navLog, vNavLog, sBrowser, vBrowser,
                   report, structure, idleVars, callback, pages, errorMessage>>

\* the response is sent; the handler is ready for the next request
Finish ==
    /\ pc = "done"
    /\ pc' = "idle"
    \* the request's data are dropped; the browsers stay
    /\ skipVerification' = FALSE
    /\ scanned' = NoData
    /\ navLog' = NoNav
    /\ vNavLog' = NoNav
    /\ response' = NoResponse
    /\ report' = NewReport
    /\ content' = <<>>
    /\ progressData' = <<>>
    /\ errorMessage' = "none"
    /\ UNCHANGED <<sBrowser, vBrowser, structure, idleVars, callback, pages>>

Next ==
    \/ Request \/ ScraperInitialize \/ ScraperNavigate \/ ScraperCapture
    \/ VerifierInitialize \/ VerifierNavigate \/ VerifierRender \/ VerifierCapture
    \/ VerifierCompareVisual \/ VerifierCompareStructural \/ VerifierCompareResponsive
    \/ VerifierFinish \/ VerifierFallback \/ Gate \/ Convert \/ Finish

Spec == Init /\ [][Next]_vars

----------------------------------------------------------------------------
(* HookSpec: the same pipeline when scrapeVisualLayout and verifyFidelity are *)
(* given no progress callback, one that returns, or one that may throw        *)

CallbackModes == {"absent", "returns", "throws"}

HookInit ==
    /\ pc = "idle"
    /\ RequestIdle /\ ConvIdle
    /\ callback \in CallbackModes
    /\ report = NewReport
    /\ columns = <<>>

\* a progressCallback?.() of scrapeVisualLayout throws: all of them are inside
\* the try block, whose catch closes the page and throws the error again
ScraperCallbackThrows ==
    /\ callback = "throws"
    /\ \/ /\ pc = "scrape_goto"
          /\ \E k \in 1..Len(ConnectProgress) :
                progressData' = scraperCallback(progressData, Prefix(ConnectProgress, k - 1))
          /\ pages' = closeOnError(newPage(pages))
       \/ /\ pc = "scrape_capture"
          /\ \E k \in 1..Len(CaptureProgress) :
                progressData' = scraperCallback(progressData, Prefix(CaptureProgress, k - 1))
          /\ pages' = closeOnError(pages)
    /\ pc' = "done"
    /\ response' = Error500
    /\ errorMessage' = "callback"
    /\ UNCHANGED <<skipVerification, scanned, navLog, vNavLog, sBrowser, vBrowser, report,
                   convVars, idleVars, callback>>

\* a progressCallback?.() of verifyFidelity throws: the one of line 22 is
\* outside the try block, the others are inside it
VerifierCallbackThrows ==
    /\ callback = "throws"
    /\ \/ /\ pc = "verify_init"
          /\ vBrowser' = "open"
          /\ report' = [NewReport EXCEPT !.status = "thrown"]
          /\ progressData' = updateProgress(progressData, 96)
          /\ response' = Error500
          /\ pc' = "done"
       \/ /\ \/ pc \in {"v_render", "v_visual", "v_structural", "v_responsive", "v_final"}
             \/ (pc = "v_nav" /\ vNavLog.log = <<>>)
          /\ pc' = "v_fallback"
          /\ UNCHANGED <<vBrowser, report, progressData, response>>
    /\ errorMessage' = "callback"
    /\ UNCHANGED <<skipVerification, scanned, navLog, vNavLog, sBrowser,
                   convVars, idleVars, callback, pages>>

HookNext == Next \/ ScraperCallbackThrows \/ VerifierCallbackThrows

HookSpec == HookInit /\ [][HookNext]_vars

----------------------------------------------------------------------------
(* LaunchSpec: concurrent calls on one VisualWebScraper (FidelityVerifier has *)
(* the same initialize and close).  A call runs until its next await; sBrowser *)
(* is this.browser.                                                           *)

\* names of the processes, in the order in which they are launched
BrowserIds == <<"b1", "b2", "b3", "b4", "b5", "b6">>

launching == {c \in Callers : calls[c].at = "launching"}

LaunchInit ==
    /\ pc = "running"
    /\ RequestIdle /\ callback = "absent" /\ ConvIdle
    /\ report = NewReport
    /\ columns = <<>>

restVars == <<pc, skipVerification, scanned, navLog, vNavLog, vBrowser, report, response,
              structure, content, columns, callback, progressData, pages, docVars,
              shareVars, pureVars>>

\* initialize() up to its await: if (!this.browser) puppeteer.launch(...)
InitializeBegin(c) ==
    /\ calls[c].at = "idle"
    /\ IF sBrowser = "null"
       THEN /\ browsers.launched + Cardinality(launching) < MaxLaunches
            /\ calls' = [calls EXCEPT ![c].at = "launching"]
       ELSE calls' = [calls EXCEPT ![c].at = "ready"]
    /\ UNCHANGED <<sBrowser, browsers, errorMessage, restVars>>

\* puppeteer.launch resolves: this.browser = <the new process>
LaunchResolves(c) ==
    /\ calls[c].at = "launching"
    /\ LET id == BrowserIds[browsers.launched + 1]
       IN /\ browsers' = [live |-> browsers.live \cup {id},
                          launched |-> browsers.launched + 1]
          /\ sBrowser' = id
    /\ calls' = [calls EXCEPT ![c].at = "ready"]
    /\ UNCHANGED <<errorMessage, restVars>>

\* puppeteer.launch rejects: initialize() throws
LaunchRejects(c) ==
    /\ calls[c].at = "launching"
    /\ calls' = [calls EXCEPT ![c].at = "idle"]
    /\ errorMessage' = "launch"
    /\ UNCHANGED <<sBrowser, browsers, restVars>>

\* the call that awaited initialize() comes to its end
CallReturns(c) ==
    /\ calls[c].at = "ready"
    /\ calls' = [calls EXCEPT ![c].at = "idle"]
    /\ UNCHANGED <<sBrowser, browsers, errorMessage, restVars>>

\* close() up to its await: if (this.browser) this.browser.close()
CloseBegin(c) ==
    /\ calls[c].at = "idle"
    /\ sBrowser # "null"
    /\ calls' = [calls EXCEPT ![c] = [at |-> "closing", handle |-> sBrowser]]
    /\ UNCHANGED <<sBrowser, browsers, errorMessage, restVars>>

\* browser.close() resolves: this.browser = null
CloseResolves(c) ==
    /\ calls[c].at = "closing"
    /\ browsers' = [browsers EXCEPT !.live = @ \ {calls[c].handle}]
    /\ sBrowser' = "null"
    /\ calls' = [calls EXCEPT ![c] = IdleCall]
    /\ UNCHANGED <<errorMessage, restVars>>

LaunchNext ==
    \E c \in Callers :
        \/ InitializeBegin(c) \/ LaunchResolves(c) \/ LaunchRejects(c)
        \/ CallReturns(c) \/ CloseBegin(c) \/ CloseResolves(c)

LaunchSpec == LaunchInit /\ [][LaunchNext]_vars

----------------------------------------------------------------------------
(* DocSpec: convertVisualToElementor from the assembled template on *)

\* markup an html widget can hold: a short fragment, and two long ones
HtmlStrings == {Str("", 200, TRUE, 20), Str("", 1500, TRUE, 150), Str("", 3000, TRUE, 300)}

\* src of an image: a link, or a data: URI holding the image itself
ImageSources == {Lit("", 60), Lit("", 160000)}

DocWidgets ==
    {htmlWidgetJson(h) : h \in HtmlStrings} \cup {imageWidgetJson(u) : u \in ImageSources}

WidgetRows == UNION {[1..n -> DocWidgets] : n \in 1..MaxWidgets}

DocContents == UNION {[1..n -> WidgetRows] : n \in 1..MaxSections}

DocInit ==
    /\ pc = "assembling"
    /\ report = NewReport
    /\ columns = <<>>
    /\ ScanIdle
    /\ ConvIdle

docRest == <<skipVerification, scanned, navLog, vNavLog, sBrowser, vBrowser, response,
             hookVars, launchVars, report, convVars, columns, shareVars, pureVars>>

\* lines 36-63: the template is assembled, then validated and cleaned
Validated(rows) ==
    /\ assembledTemplate' = assembleTemplate(rows)
    /\ validatedTemplate' = validateAndCleanTemplate(assembleTemplate(rows))
    /\ pc' = "returned"
    /\ UNCHANGED docRest

\* finalSize <= 150000: return validatedTemplate
ReturnValidated ==
    /\ pc = "assembling"
    /\ \E rows \in DocContents :
        /\ Validated(rows)
        /\ jsonSize(validatedTemplate') <= SizeThreshold
        /\ returned' = validatedTemplate'

\* finalSize > 150000: return this.smartCleanTemplate(validatedTemplate)
ReturnSmartCleaned ==
    /\ pc = "assembling"
    /\ \E rows \in DocContents :
        /\ Validated(rows)
        /\ jsonSize(validatedTemplate') > SizeThreshold
        /\ returned' = smartCleanTemplate(validatedTemplate')

DocNext == ReturnValidated \/ ReturnSmartCleaned

DocSpec == DocInit /\ [][DocNext]_vars

----------------------------------------------------------------------------
(* ShareSpec: the route's one VisualElementorConverter converts page after page *)

\* Set.add on a Set kept in insertion order
SetAdd(set, x) ==
    IF \E i \in 1..Len(set) : set[i] = x THEN set ELSE Append(set, x)

RECURSIVE addColors(_, _)
addColors(set, colors) ==
    IF Len(colors) = 0 THEN set
    ELSE addColors(IF Head(colors) \notin {"", "transparent", "rgba(0, 0, 0, 0)"}
                   THEN SetAdd(set, Head(colors)) ELSE set,
                   Tail(colors))

RECURSIVE addFonts(_, _)
addFonts(set, fonts) ==
    IF Len(fonts) = 0 THEN set
    ELSE addFonts(IF Head(fonts) \notin {"", "inherit"}
                  THEN SetAdd(set, Head(fonts)) ELSE set,
                  Tail(fonts))

\* Array.from(set).slice(0, n)
Slice(set, n) == SubSeq(set, 1, Min(Len(set), n))

\* custom_colors and custom_fonts of buildPageSettings, by color and font_family
buildPageSettings(colors, fonts) ==
    [custom_colors |-> Slice(colors, 8), custom_fonts |-> Slice(fonts, 6)]

\* visualData of one scraped page: the captured tree and its harvested assets
Snapshot(struct, colors, fonts) ==
    [structure |-> struct, assets |-> [colors |-> colors, fonts |-> fonts]]

Snapshots ==
    {Snapshot(BodyElement(<<>>), <<>>, <<>>),
     Snapshot(BodyElement(<<H1, P1>>), <<"red", "transparent", "blue">>, <<"Arial", "inherit">>),
     Snapshot(BodyElement(<<P1>>), <<"green", "red">>, <<"Georgia">>),
     Snapshot(BodyElement(<<Main(<<Div(<<P1>>), Div(<<P1>>)>>)>>),
              <<"c1", "c2", "c3", "c4", "c5", "c6", "c7", "c8", "c9">>,
              <<"f1", "f2", "f3", "f4", "f5", "f6", "f7">>),
     Snapshot(BodyElement(<<H1>>), <<"rgba(0, 0, 0, 0)", "black">>, <<"Arial", "Verdana">>)}

\* content of the template for a snapshot: this.buildElementorFromVisual reads
\* the snapshot and no field of the converter
convertedContent_Stateful(visualData) ==
    IF Len(conversions) > 0 THEN <<createDefaultSection>>
    ELSE buildElementorFromVisual(buildVisualStructureMap(visualData.structure))

convertedContent(visualData) ==
    buildElementorFromVisual(buildVisualStructureMap(visualData.structure))

ShareInit ==
    /\ pc = "serving"
    /\ report = NewReport
    /\ columns = <<>>
    /\ ScanIdle
    /\ ConvIdle

shareRest == <<pc, skipVerification, scanned, navLog, vNavLog, sBrowser, vBrowser, response,
               hookVars, launchVars, docVars, report, convVars, columns, pureVars>>

\* visualConverter.convertVisualToElementor(visualData, verificationReport):
\* extractGlobalAssets, buildElementorFromVisual, buildPageSettings
ConvertVisualToElementor(visualData) ==
    /\ Len(conversions) < MaxConversions
    /\ globalColors' = addColors(globalColors, visualData.assets.colors)
    /\ globalFonts' = addFonts(globalFonts, visualData.assets.fonts)
    /\ conversions' = Append(conversions,
           [visualData |-> visualData,
            content |-> convertedContent(visualData),
            page_settings |-> buildPageSettings(globalColors', globalFonts')])
    /\ UNCHANGED shareRest

ShareNext == \E visualData \in Snapshots : ConvertVisualToElementor(visualData)

ShareSpec == ShareInit /\ [][ShareNext]_vars

----------------------------------------------------------------------------
(* FnSpec: functions of the verifier and of the converter applied to arguments *)

Applied(fn, args, result) == [fn |-> fn, args |-> args, result |-> result]

\* screenshot buffers by length; a Buffer of length 0 is an object, hence truthy
BufferLengths == {Missing, 0, 1, 100, 104, 112, 200}

\* layouts of one breakpoint by length; an empty array is truthy
LayoutLengths == {Missing, 0, 1, 12}

LinkLeaf == Leaf("a", 0, 80, 20, "inline")

CompareLeaves == Palette \cup {LinkLeaf}

\* captured trees of at most two elements below <body>
CompareTrees ==
    {BodyElement(kids) : kids \in UNION {[1..n -> CompareLeaves] : n \in 0..2}}

\* extractPageStructure: the counts of the original page, here those of a page
\* with the given elements
extractPageStructure(tree) ==
    [m \in metrics |-> IF m = "elementCount" THEN countNodes(tree)
                       ELSE countElementsInStructure(tree, m)]

ParentTypes == {"body", "section", "column"}

ClassifiedElements == Palette \cup {LinkLeaf, Div(<<P1>>), Main(<<Div(<<P1>>), Div(<<P1>>)>>)}

FnInit ==
    /\ pc = "apply"
    /\ report = NewReport
    /\ columns = <<>>
    /\ ScanIdle
    /\ ConvIdle

fnRest == <<skipVerification, scanned, navLog, vNavLog, sBrowser, vBrowser, response,
            hookVars, launchVars, docVars, shareVars, report, convVars, columns, scroll>>

Apply(call) ==
    /\ applied' = call
    /\ pc' = "applied"
    /\ UNCHANGED fnRest

CompareScreenshots ==
    /\ pc = "apply"
    /\ \E originalBuffer \in BufferLengths, cloneBuffer \in BufferLengths :
        Apply(Applied("compareScreenshots", <<originalBuffer, cloneBuffer>>,
                      compareScreenshots(originalBuffer, cloneBuffer)))

CompareStructuralFidelity ==
    /\ pc = "apply"
    /\ \E original \in CompareTrees, clonedStructure \in CompareTrees :
        Apply(Applied("compareStructuralFidelity",
                      <<extractPageStructure(original), clonedStructure>>,
                      compareStructuralFidelity(extractPageStructure(original),
                                                clonedStructure)))

CompareResponsiveness ==
    /\ pc = "apply"
    /\ \E originalResponsive \in [Devices -> LayoutLengths],
       clonedResponsive \in [Devices -> LayoutLengths] :
        Apply(Applied("compareResponsiveness", <<originalResponsive, clonedResponsive>>,
                      compareResponsiveness(originalResponsive, clonedResponsive)))

DetermineElementorType ==
    /\ pc = "apply"
    /\ \E element \in ClassifiedElements, parentType \in ParentTypes :
        Apply(Applied("determineElementorType", <<element, parentType>>,
                      determineElementorType(element, parentType)))

\* the next value of the grid, or the same value at its top
nextOnGrid(x) == RMin(One, RAdd(x, Rat(1, GridN)))

\* calculateOverallScore applied to a report and to the report with one
\* sub-score raised by one step of the grid
CalculateOverallScoreRaised ==
    /\ pc = "apply"
    /\ \E v \in Grid, st \in Grid, r \in Grid, which \in {"visual", "structural", "responsive"} :
        LET lower == [NewReport EXCEPT !.visualScore = v, !.structuralScore = st,
                                       !.responsiveScore = r]
            higher == CASE which = "visual" ->
                               [lower EXCEPT !.visualScore = nextOnGrid(v)]
                        [] which = "structural" ->
                               [lower EXCEPT !.structuralScore = nextOnGrid(st)]
                        [] OTHER ->
                               [lower EXCEPT !.responsiveScore = nextOnGrid(r)]
        IN Apply(Applied("calculateOverallScore", <<lower, higher>>,
                         <<calculateOverallScore(lower), calculateOverallScore(higher)>>))

FnNext ==
    \/ CompareScreenshots
    \/ CompareStructuralFidelity
    \/ CompareResponsiveness
    \/ DetermineElementorType
    \/ CalculateOverallScoreRaised

FnSpec == FnInit /\ [][FnNext]_vars

----------------------------------------------------------------------------
(* ScrollSpec: the lazy-load scroll of scrapeVisualLayout.  The promise keeps
   totalHeight and re-reads document.body.scrollHeight on every tick of its
   interval; its test totalHeight >= scrollHeight depends on the difference
   of the two only, which is what scroll.remaining holds. *)

\* const distance = 100
distance == 100

\* pixels the document grows by in answer to one window.scrollBy
Growths == {0, 60, 100, 240}

ScrollInit ==
    /\ pc = "scroll"
    /\ \E scrollHeight \in 0..MaxScrollHeight :
          scroll = [at |-> "scrolling", remaining |-> scrollHeight, grown |-> FALSE]
    /\ report = NewReport
    /\ columns = <<>>
    /\ NoRequest
    /\ callback = "returns"
    /\ ConvIdle

scrollRest == <<pc, skipVerification, scanned, navLog, vNavLog, sBrowser, vBrowser,
                response, hookVars, launchVars, docVars, shareVars, report, convVars,
                columns, applied>>

\* one tick of the interval: scrollHeight is read, the window is scrolled,
\* totalHeight grows by distance and is compared with the height read; the
\* document answers the scroll by loading more content or not
ScrollTick ==
    /\ scroll.at = "scrolling"
    /\ LET scrollHeight == scroll.remaining     \* less the old totalHeight
           totalHeight == distance               \* less the old totalHeight
       IN IF totalHeight >= scrollHeight
          THEN \* clearInterval(timer); window.scrollTo(0, 0); setTimeout(resolve, 1000)
               scroll' = [scroll EXCEPT !.at = "settling"]
          ELSE \E growth \in Growths :
                  /\ scrollHeight + growth - totalHeight <= MaxScrollHeight
                  /\ scroll' = [at |-> "scrolling",
                                remaining |-> scrollHeight + growth - totalHeight,
                                grown |-> growth > 0]
    /\ UNCHANGED scrollRest

\* the timeout of 1000 ms fires and the promise resolves
ScrollResolve ==
    /\ scroll.at = "settling"
    /\ scroll' = [scroll EXCEPT !.at = "resolved"]
    /\ UNCHANGED scrollRest

ScrollNext == ScrollTick \/ ScrollResolve

\* timers that are due do fire
ScrollSpec ==
    ScrollInit /\ [][ScrollNext]_vars /\ WF_vars(ScrollTick) /\ WF_vars(ScrollResolve)

----------------------------------------------------------------------------
(* Claims *)

Converted == pc \in {"converted_prebuilt", "converted_raw"}

columnsOf(section) == SelectSeq(section.elements, LAMBDA n : n.elType = "column")

columnSizeSum(section) ==
    SumSeq([i \in 1..Len(columnsOf(section)) |-> columnsOf(section)[i].column_size])

\* every section below (and including) the given nodes
RECURSIVE sectionsIn(_)
sectionsIn(nodes) ==
    UNION {(IF nodes[i].elType = "section" THEN {nodes[i]} ELSE {})
           \cup sectionsIn(nodes[i].elements) : i \in 1..Len(nodes)}

\* C1: in every converted template, the _column_size values of the sibling
\* columns of every section sum to exactly 100, on the pre-built path as well
\* as on the raw path
C1_ColumnSizesSumTo100 ==
    Converted =>
        \A section \in sectionsIn(content) :
            Len(columnsOf(section)) > 0 => columnSizeSum(section) = 100

\* C2: given two or more columns, calculateIntelligentColumnWidths leaves every
\* column, the last one included, with a _column_size between 15 and 70
C2_EveryWidthWithin15And70 ==
    (pc = "sized" /\ Len(columns) >= 2) =>
        \A i \in 1..Len(columns) :
            columns[i].column_size >= 15 /\ columns[i].column_size <= 70

isWidgetNode(n) == n.elType = "widget" /\ n.widgetType # ""

isColumnNode(n) ==
    n.elType = "column" /\ \A i \in 1..Len(n.elements) : isWidgetNode(n.elements[i])

isSectionNode(n) ==
    /\ n.elType = "section"
    /\ Len(n.elements) >= 1
    /\ \A i \in 1..Len(n.elements) : isColumnNode(n.elements[i])

\* C3: the content of every converted template is a three-tier tree: sections
\* at the top, each holding at least one column and nothing but columns, each
\* column holding nothing but widgets with a non-empty widgetType
C3_ThreeTierTree ==
    Converted => \A i \in 1..Len(content) : isSectionNode(content[i])

\* C4: verifyFidelity never throws, so once the scrape has succeeded the
\* handler never answers 500
C4_VerifierNeverThrows ==
    /\ report.status # "thrown"
    /\ (response.kind = "error500" => ~scanned.captured)

\* C5: in every returned report, passed holds exactly when fidelityScore
\* reaches toleranceThreshold
C5_PassedIffScoreReachesThreshold ==
    report.status = "returned" =>
        (report.passed <=> RLe(toleranceThreshold, report.fidelityScore))

\* C6: a fallback report whose weighted sub-scores stay below the threshold
\* has passed = false
C6_FallbackFailsBelowThreshold ==
    (report.status = "returned" /\ report.fallback
       /\ RLt(weightedScore(report), toleranceThreshold))
    => ~report.passed

\* C7: calculateOverallScore returns a value in [0.5, 1.0] for all sub-scores
\* in [0, 1]
C7_OverallScoreWithinHalfAndOne ==
    pc = "scored" =>
        /\ RLe(Rat(5, 10), report.fidelityScore)
        /\ RLe(report.fidelityScore, One)

\* a report whose weighted sum is below 0.5 and was floored to 0.5
C7_Witness ==
    /\ pc = "scored"
    /\ RLt(weightedScore(report), Rat(5, 10))
    /\ report.fidelityScore = Rat(5, 10)

\* C8: without skipVerification, a report with passed = false is answered by
\* the structured failure and no template; a template needs passed = true
C8_VerdictGatesTheTemplate ==
    (~skipVerification /\ response.kind # "none" /\ report.status = "returned") =>
        /\ ~report.passed =>
              /\ response.kind = "verification_failed"
              /\ response.canRetry /\ response.skipVerificationAvailable
              /\ ~response.template
        /\ response.template => report.passed

\* C9: with skipVerification, every request whose scrape succeeded is answered
\* with the template, whatever the verifier does
C9_SkipAlwaysReturnsTemplate ==
    (skipVerification /\ scanned.captured /\ response.kind # "none") =>
        response.success /\ response.template

strategiesOf(nav) == [i \in 1..Len(nav.log) |-> nav.log[i].strategy]

cascadeRespected(nav) ==
    \* a strategy that succeeds stops the cascade
    /\ \A i \in 1..Len(nav.log) : nav.log[i].ok => i = Len(nav.log)
    \* an error is raised only after the three strategies, in order, and it is
    \* the last strategy's error
    /\ nav.raised # "none" =>
          /\ strategiesOf(nav) = CascadeOrder
          /\ nav.raised = CascadeOrder[Len(CascadeOrder)]

\* C10: when navigation fails, in scrapeVisualLayout and in captureOriginalSite,
\* strict idle, lenient idle and DOM-ready have each been tried once, in this
\* order, and the error raised is the last one
C10_CascadeBeforeNavigationError ==
    cascadeRespected(navLog) /\ cascadeRespected(vNavLog)

\* C11: within one request the progress values passed to updateProgress lie in
\* 0..100 and never decrease, on every path of the handler
C11_ProgressNeverDecreases ==
    \A i \in 1..Len(progressData) :
        /\ progressData[i] >= 0 /\ progressData[i] <= 10000
        /\ i > 1 => progressData[i - 1] <= progressData[i]

\* positions at which a call holds a page it has opened
HoldsPage == {"scrape_capture", "v_nav", "v_capture", "v_render_capture"}

\* C14: every page opened by scrapeVisualLayout, captureOriginalSite or
\* renderClonedStructure is closed once the call has returned or thrown; a
\* failing capture step aborts the scrape with the page closed and no snapshot
C14_PagesClosedOnReturnOrThrow ==
    /\ pages \in 0..1
    /\ pc \notin HoldsPage => pages = 0
    /\ (response.kind = "error500" /\ errorMessage = "capture") =>
          (pages = 0 /\ ~scanned.captured)

\* the second breakpoint capture has rejected and the request was answered 500
C14_Witness ==
    /\ pc = "done"
    /\ response.kind = "error500"
    /\ errorMessage = "capture"
    /\ navLog.log # <<>> /\ navLog.raised = "none"
    /\ Len(progressData) = 1 + Len(ConnectProgress) + 5
    /\ pages = 0

\* C12: the progress callback has no effect on control flow: no scrape is
\* aborted and no verification is diverted to the fallback report (or made to
\* reject) by an error the callback has thrown
C12_CallbackCannotDivert ==
    /\ response.kind = "error500" => errorMessage # "callback"
    /\ report.fallback => errorMessage # "callback"

\* C13: under every interleaving of concurrent calls on one instance, no
\* second puppeteer.launch is started while one is in progress, and every
\* live browser process is the one this.browser refers to
C13_BrowserLaunchedOnce ==
    /\ Cardinality(launching) <= 1
    /\ \A b \in browsers.live : b = sBrowser

\* Elementor's name for the text widget is 'text-editor'
isTextWidget(n) == isWidgetNode(n) /\ n.widgetType \in {"text", "text-editor"}

\* C15: the snapshot of a page whose body holds one heading and one paragraph
\* is converted into exactly one section holding exactly one column holding
\* exactly two widgets, a heading and a text, in that order
C15_HeadingAndParagraph ==
    (Converted /\ structure = BodyElement(<<H1, P1>>)) =>
        /\ Len(content) = 1
        /\ content[1].elType = "section"
        /\ Len(content[1].elements) = 1
        /\ content[1].elements[1].elType = "column"
        /\ Len(content[1].elements[1].elements) = 2
        /\ content[1].elements[1].elements[1].elType = "widget"
        /\ content[1].elements[1].elements[1].widgetType = "heading"
        /\ isTextWidget(content[1].elements[1].elements[2])

\* three children laid out side by side by a flex row: same vertical offset,
\* equal widths, none positioned, none a landmark tag
isFlexRowOfThree(e) ==
    /\ e.layout.display = "flex"
    /\ e.layout.flexDirection = "row"
    /\ Len(e.children) = 3
    /\ \A i \in 1..3 :
          /\ e.children[i].layout.y = e.children[1].layout.y
          /\ e.children[i].layout.width = e.children[1].layout.width
          /\ e.children[i].layout.position = "static"
          /\ e.children[i].tagName \notin StructuralTags

\* C16: a container whose three children are laid out side by side by flex is
\* converted into one section with exactly three columns, one per child, each
\* _column_size within 1 of 33 and the three summing to 100
C16_FlexRowGivesThreeColumns ==
    (/\ Converted
     /\ Len(structure.children) = 1
     /\ isFlexRowOfThree(structure.children[1])) =>
        /\ Len(content) = 1
        /\ content[1].elType = "section"
        /\ Len(content[1].elements) = 3
        /\ \A i \in 1..3 :
              /\ content[1].elements[i].elType = "column"
              /\ content[1].elements[i].column_size \in 32..34
        /\ columnSizeSum(content[1]) = 100

\* C17: a conversion that yields no section returns one default section
\* holding one column holding one placeholder widget
C17_DefaultSectionHasPlaceholder ==
    (Converted /\ structure = BodyElement(<<>>)) =>
        /\ Len(content) = 1
        /\ content[1].elType = "section"
        /\ Len(content[1].elements) = 1
        /\ content[1].elements[1].elType = "column"
        /\ Len(content[1].elements[1].elements) = 1
        /\ isWidgetNode(content[1].elements[1].elements[1])

\* every node below (and including) the given nodes
RECURSIVE nodesIn(_)
nodesIn(nodes) ==
    UNION {{nodes[i]} \cup nodesIn(nodes[i].elements) : i \in 1..Len(nodes)}

\* C18: every section, column and widget of a converted template carries an
\* id (8 characters of [a-z0-9]), the nodes taken over from the scraper's
\* pre-built structure included
C18_EveryNodeHasAnId ==
    Converted => \A n \in nodesIn(content) : n.hasId

NodeTypes == {"section", "column", "widget"}

\* C19: when the cleaned document is larger than 150000 characters, the
\* document smartCleanTemplate returns is strictly smaller and has the same
\* numbers of sections, columns and widgets
C19_SmartCleanShrinksAndKeepsNodes ==
    (pc = "returned" /\ jsonSize(validatedTemplate) > SizeThreshold) =>
        /\ jsonSize(returned) < jsonSize(validatedTemplate)
        /\ \A t \in NodeTypes :
              countElType(returned, t) = countElType(validatedTemplate, t)

\* an oversized document of two sections went through smartCleanTemplate
C19_Witness ==
    /\ pc = "returned"
    /\ jsonSize(validatedTemplate) > SizeThreshold
    /\ returned # validatedTemplate
    /\ countElType(returned, "section") = 2
    /\ countElType(returned, "widget") >= 3

\* C20: for every assembled document smaller than the size threshold, the
\* document returned after validateAndCleanTemplate is deep-equal to the
\* assembled one: no key is removed, no string is replaced by a placeholder
C20_SmallDocumentsComeBackUnchanged ==
    (pc = "returned" /\ jsonSize(assembledTemplate) < SizeThreshold) =>
        returned = assembledTemplate

\* what is left of a node when ids are set aside
RECURSIVE shapeOf(_)
shapeOf(nodes) ==
    [i \in 1..Len(nodes) |->
        [elType |-> nodes[i].elType, widgetType |-> nodes[i].widgetType,
         elements |-> shapeOf(nodes[i].elements)]]

freshPageSettings(visualData) ==
    buildPageSettings(addColors(<<>>, visualData.assets.colors),
                      addFonts(<<>>, visualData.assets.fonts))

\* C30: the custom_colors and custom_fonts emitted for a snapshot are those
\* a fresh converter would emit for it, whatever the shared converter
\* converted before
C30_PaletteDependsOnSnapshotOnly ==
    \A i \in 1..Len(conversions) :
        conversions[i].page_settings = freshPageSettings(conversions[i].visualData)

\* the counts of the clone are those of the original, category by category
structurallyIdentical(originalStructure, clonedStructure) ==
    \A m \in metrics :
        originalStructure[m] = (IF m = "elementCount" THEN countNodes(clonedStructure)
                                ELSE countElementsInStructure(clonedStructure, m))

\* C22: compareStructuralFidelity returns at least 0.9 whenever, for every
\* category, the count in the cloned tree equals the original's count
C22_IdenticalStructuresScoreHigh ==
    (applied.fn = "compareStructuralFidelity"
       /\ structurallyIdentical(applied.args[1], applied.args[2]))
    => RLe(Rat(9, 10), applied.result)

\* identical structures without text, div, image or heading, where the 1.2
\* boost does not apply: the score is 0.9 exactly
C22_Witness ==
    /\ applied.fn = "compareStructuralFidelity"
    /\ structurallyIdentical(applied.args[1], applied.args[2])
    /\ ~hasValidContent(applied.args[2])
    /\ Len(applied.args[2].children) > 0
    /\ applied.result = Rat(9, 10)

\* C23 as stated: compareScreenshots returns at least 0.8 whenever the two
\* buffers are identical, for every buffer length of zero or more bytes
C23_IdenticalBuffersScoreHigh ==
    (applied.fn = "compareScreenshots"
       /\ applied.args[1] # Missing
       /\ applied.args[1] = applied.args[2])
    => RLe(Rat(8, 10), applied.result)

\* C23 amended: compareScreenshots returns at least 0.8 whenever the two
\* buffers are identical and hold at least one byte
C23_IdenticalNonEmptyBuffersScoreHigh ==
    (applied.fn = "compareScreenshots"
       /\ applied.args[1] >= 1
       /\ applied.args[1] = applied.args[2])
    => RLe(Rat(8, 10), applied.result)

C23_Witness ==
    /\ applied.fn = "compareScreenshots"
    /\ applied.args[1] = 104
    /\ applied.args[2] = 104
    /\ applied.result = Rat(8, 10)

\* C24: compareResponsiveness returns at least 0.6 whenever layout data
\* exists for at least one breakpoint on at least one side
C24_ResponsiveScoreAtLeastSixTenths ==
    (applied.fn = "compareResponsiveness"
       /\ \E d \in Devices : applied.args[1][d] # Missing \/ applied.args[2][d] # Missing)
    => RLe(Rat(6, 10), applied.result)

\* C26: determineElementorType answers 'widget' for every node without
\* children, under every parent type
C26_LeavesAreWidgets ==
    (applied.fn = "determineElementorType" /\ Len(applied.args[1].children) = 0)
    => applied.result = "widget"

\* C29: raising one sub-score while the other two stay fixed never lowers
\* the overall score
C29_OverallScoreMonotone ==
    applied.fn = "calculateOverallScore" => RLe(applied.result[1], applied.result[2])

\* the sub-scores of a report, in the order structural, visual, responsive
subScores(r) == <<r.structuralScore, r.visualScore, r.responsiveScore>>

fixedScores(scannedData) ==
    IF validateScannedContent(scannedData)
    THEN <<Rat(25, 100), Rat(15, 100), Rat(20, 100)>>
    ELSE <<Rat(10, 100), Rat(5, 100), Rat(10, 100)>>

\* a step of verifyFidelity's try block has failed and the catch block has
\* not run yet
stepFailed == pc = "v_fallback"

\* C25: when a step of verifyFidelity's scoring sequence fails, the next step
\* taken is the catch block and no other, and the report it returns has
\* details.fallback set and carries the fixed sub-scores chosen by
\* validateScannedContent, whatever had been computed before the failure
C25_FailureGivesFixedFallbackScores ==
    /\ []((report.status = "returned" /\ errorMessage # "none")
            => (report.fallback /\ subScores(report) = fixedScores(scanned)))
    /\ [][stepFailed => /\ pc' = "gate"
                        /\ report'.status = "returned"
                        /\ report'.fallback
                        /\ subScores(report') = fixedScores(scanned)
                        /\ progressData' = progressData]_vars

\* a callback threw after the structural step had started, so after the visual
\* score had been computed, and the fallback report came back
C25_Witness ==
    /\ pc = "gate"
    /\ errorMessage = "callback"
    /\ report.fallback
    /\ \E i \in 1..Len(progressData) : progressData[i] = verifierCap(75)
    /\ validateScannedContent(scanned)

\* C28: with the threshold 0.45, every report that verifyFidelity returns
\* without having entered its catch block has passed = true
C28_NonFallbackReportsPass ==
    (report.status = "returned" /\ ~report.fallback) => report.passed

\* a report returned on the non-fallback path whose weighted sub-scores are
\* below the threshold
C28_Witness ==
    /\ report.status = "returned"
    /\ ~report.fallback
    /\ report.passed
    /\ RLt(weightedScore(report), toleranceThreshold)

\* C27: the lazy-load scroll resolves for every page, the pages that grow
\* each time they are scrolled included
C27_ScrollAlwaysResolves == <>(scroll.at = "resolved")

====
